---- MODULE Spec2Model ----
(***************************************************************************)
(* goker-ledger: the event normalizer and timeline builder                 *)
(* (services/timeline.rs), the PnL aggregator (services/pnl_calculator.rs), *)
(* the paginated fetch of the Hyperliquid data source                      *)
(* (datasource/hyperliquid/info_client.rs) and the /pnl request handler    *)
(* (handlers/pnl.rs) with its error responses (error.rs).                  *)
(*                                                                         *)
(* Representation.                                                         *)
(*  - A String is a sequence of one-character strings, <<"B","T","C">>,    *)
(*    so that parsing, formatting and byte-wise comparison are computed.   *)
(*  - An i64 millisecond count v is the pair [day |-> v div 86400000,      *)
(*    ms |-> v mod 86400000] (floor division): the model checker's         *)
(*    integers are 32 bits wide and the instants of interest (year 10000   *)
(*    and beyond) are not.  A DateTime<Utc> is the same pair.              *)
(*  - A BigDecimal is [int_val, scale], value int_val * 10^(-scale), as in *)
(*    the bigdecimal crate; equality is numeric (DecEq).                   *)
(*  - A serde_json Value field is [k |-> "absent" | "null" | "float" |     *)
(*    "str" | "int"], with s (the string) or day, ms (the integer).        *)
(***************************************************************************)
EXTENDS Integers, Sequences, FiniteSets, TLC

VARIABLES
    pc,                 \* position of the request being served
    rawFills,           \* Vec<Value> handed to build_timeline
    rawFunding,         \* Vec<Value> handed to build_timeline
    timeline,           \* Option<Timeline>: the value build_timeline returned
    unrealized,         \* the unrealized_pnl handed to calculate_summary
    summary,            \* Option<PnlSummary>
    daily,              \* Option<Vec<DailyPnl>>
    upstream,           \* the records the exchange holds, time-ascending
    start_time,         \* fetch_paginated: the caller's start_time, Option<i64>
    current_start_time, \* fetch_paginated: Option<i64>
    all_items,          \* fetch_paginated: Vec<Value> gathered so far
    page,               \* fetch_paginated: the page just received
    requests,           \* fetch_paginated: the startTime of every request sent
    fetched,            \* Option<AppResult<Vec<Value>>> of fetch_paginated
    user_state,         \* get_pnl_summary: Option<Value>, the clearinghouse state
    calls,              \* get_pnl_summary: the fetches issued, in order
    response            \* get_pnl_summary: Option of the response sent

vars == <<pc, rawFills, rawFunding, timeline, unrealized, summary, daily,
          upstream, start_time, current_start_time, all_items, page, requests, fetched,
          user_state, calls, response>>

pipelineVars == <<rawFills, rawFunding, timeline, unrealized, summary, daily>>
fetchVars == <<upstream, start_time, current_start_time, all_items, page, requests, fetched>>
handlerVars == <<user_state, calls, response>>

----------------------------------------------------------------------------
(* Option<T> *)

None == [tag |-> "None"]
Some(x) == [tag |-> "Some", v |-> x]
IsSome(o) == o.tag = "Some"

(* Sequences of length at most n over S. *)
SeqsUpTo(S, n) == UNION {[1..k -> S] : k \in 0..n}

----------------------------------------------------------------------------
(* serde_json::Value *)

JAbsent == [k |-> "absent"]
JNull == [k |-> "null"]
JFloat == [k |-> "float"]
JStr(s) == [k |-> "str", s |-> s]
JInt(d, m) == [k |-> "int", day |-> d, ms |-> m]

\* Value::as_str: Some only for a JSON string
as_str(v) == IF v.k = "str" THEN Some(v.s) ELSE None

\* Value::as_i64: Some only for a JSON integer that fits an i64
as_i64(v) == IF v.k = "int" THEN Some([day |-> v.day, ms |-> v.ms]) ELSE None

----------------------------------------------------------------------------
(* BigDecimal *)

Dec(i, s) == [int_val |-> i, scale |-> s]

RECURSIVE Pow10(_)
Pow10(n) == IF n = 0 THEN 1 ELSE 10 * Pow10(n - 1)

\* BigDecimal::from(0), BigDecimal::default()
DecZero == Dec(0, 0)

MaxOf(a, b) == IF a >= b THEN a ELSE b

\* the unscaled integer of a at scale s >= a.scale
Rescale(a, s) == a.int_val * Pow10(s - a.scale)

\* &a + &b: the operands are aligned on the larger scale
DecAdd(a, b) ==
    LET s == MaxOf(a.scale, b.scale)
    IN  Dec(Rescale(a, s) + Rescale(b, s), s)

\* -a
DecNeg(a) == Dec(0 - a.int_val, a.scale)

\* &a - &b
DecSub(a, b) == DecAdd(a, DecNeg(b))

\* a == b: numeric equality, 1.0 == 1.00
DecEq(a, b) ==
    LET s == MaxOf(a.scale, b.scale)
    IN  Rescale(a, s) = Rescale(b, s)

RECURSIVE DecSum(_)
DecSum(ds) == IF ds = <<>> THEN DecZero ELSE DecAdd(Head(ds), DecSum(Tail(ds)))

DigitChars == <<"0", "1", "2", "3", "4", "5", "6", "7", "8", "9">>
IsDigit(c) == \E i \in 1..10 : DigitChars[i] = c
DigitVal(c) == (CHOOSE i \in 1..10 : DigitChars[i] = c) - 1

RECURSIVE DigitsValue(_, _)
DigitsValue(s, acc) ==
    IF s = <<>> THEN acc ELSE DigitsValue(Tail(s), 10 * acc + DigitVal(Head(s)))

\* str::find: the first index of s holding a character of cs, 0 when there is none
FindChar(s, cs) ==
    IF \E i \in 1..Len(s) : s[i] \in cs
    THEN CHOOSE i \in 1..Len(s) : s[i] \in cs /\ \A j \in 1..(i - 1) : s[j] \notin cs
    ELSE 0

\* i64::from_str and BigInt::from_str: an optional sign, then one digit or more
IntegerFromStr(s) ==
    LET signed == Len(s) > 0 /\ s[1] \in {"+", "-"}
        body == IF signed THEN Tail(s) ELSE s
        mag == DigitsValue(body, 0)
    IN  IF body # <<>> /\ \A i \in 1..Len(body) : IsDigit(body[i])
        THEN Some(IF signed /\ s[1] = "-" THEN 0 - mag ELSE mag)
        ELSE None

\* BigDecimal::from_str(s).ok(): the text is split at the first 'e' or 'E' into
\* base and exponent, the base at its first '.' into lead and trail; the digits
\* are lead followed by trail, and the scale is the length of trail less the
\* exponent
BigDecimal_from_str(s) ==
    LET e == FindChar(s, {"e", "E"})
        base_part == IF e = 0 THEN s ELSE SubSeq(s, 1, e - 1)
        exp_text == IF e = 0 THEN <<>> ELSE SubSeq(s, e + 1, Len(s))
        exponent == IF e = 0 THEN Some(0)
                    ELSE IF exp_text # <<>> /\ exp_text[1] = "+"
                         THEN IntegerFromStr(Tail(exp_text))
                         ELSE IntegerFromStr(exp_text)
        dot == FindChar(base_part, {"."})
        lead == IF dot = 0 THEN base_part ELSE SubSeq(base_part, 1, dot - 1)
        trail == IF dot = 0 THEN <<>> ELSE SubSeq(base_part, dot + 1, Len(base_part))
        big_int == IntegerFromStr(lead \o trail)
    IN  IF IsSome(exponent) /\ base_part # <<>> /\ IsSome(big_int)
        THEN Some(Dec(big_int.v, Len(trail) - exponent.v))
        ELSE None

----------------------------------------------------------------------------
(* chrono::DateTime<Utc> *)

Instant(d, m) == [day |-> d, ms |-> m]

\* DateTime::default(): the Unix epoch
EpochInstant == Instant(0, 0)

\* a.cmp(&b) is Less or Equal
TsLeq(a, b) == a.day < b.day \/ (a.day = b.day /\ a.ms <= b.ms)
TsLt(a, b) == a.day < b.day \/ (a.day = b.day /\ a.ms < b.ms)

\* days since 1970-01-01 of the proleptic Gregorian date y-m-d
DaysFromCivil(y, m, d) ==
    LET yy == IF m <= 2 THEN y - 1 ELSE y
        era == yy \div 400
        yoe == yy - era * 400
        mp == IF m > 2 THEN m - 3 ELSE m + 9
        doy == (153 * mp + 2) \div 5 + d - 1
        doe == yoe * 365 + yoe \div 4 - yoe \div 100 + doy
    IN  era * 146097 + doe - 719468

\* the proleptic Gregorian date of a day count since 1970-01-01
CivilFromDays(z) ==
    LET zz == z + 719468
        era == zz \div 146097
        doe == zz - era * 146097
        yoe == (doe - doe \div 1460 + doe \div 36524 - doe \div 146096) \div 365
        doy == doe - (365 * yoe + yoe \div 4 - yoe \div 100)
        mp == (5 * doy + 2) \div 153
        d == doy - (153 * mp + 2) \div 5 + 1
        m == IF mp < 10 THEN mp + 3 ELSE mp - 9
        y == yoe + era * 400 + (IF m <= 2 THEN 1 ELSE 0)
    IN  [year |-> y, month |-> m, day |-> d]

\* chrono's NaiveDate::MIN and NaiveDate::MAX are -262143-01-01 and 262142-12-31
MIN_YEAR == -262143
MAX_YEAR == 262142

\* DateTime::from_timestamp_millis(ts): None outside the representable dates
from_timestamp_millis(ts) ==
    IF /\ DaysFromCivil(MIN_YEAR, 1, 1) <= ts.day
       /\ ts.day <= DaysFromCivil(MAX_YEAR, 12, 31)
    THEN Some(Instant(ts.day, ts.ms))
    ELSE None

\* Option::unwrap_or_default for Option<DateTime<Utc>>
unwrap_or_default_instant(o) == IF IsSome(o) THEN o.v ELSE EpochInstant

RECURSIVE NatDigits(_)
NatDigits(n) ==
    IF n < 10 THEN <<DigitChars[n + 1]>>
    ELSE NatDigits(n \div 10) \o <<DigitChars[(n % 10) + 1]>>

RECURSIVE ZeroPad(_, _)
ZeroPad(s, width) == IF Len(s) >= width THEN s ELSE ZeroPad(<<"0">> \o s, width)

\* %Y: four zero-padded digits for the years 0..9999, and a sign followed by
\* at least four digits for every other year
FormatYear(y) ==
    IF 0 <= y /\ y <= 9999 THEN ZeroPad(NatDigits(y), 4)
    ELSE IF y < 0 THEN <<"-">> \o ZeroPad(NatDigits(0 - y), 4)
    ELSE <<"+">> \o ZeroPad(NatDigits(y), 4)

\* timestamp.format("%Y-%m-%d").to_string()
FormatDate(ts) ==
    LET c == CivilFromDays(ts.day)
    IN  FormatYear(c.year) \o <<"-">> \o ZeroPad(NatDigits(c.month), 2)
            \o <<"-">> \o ZeroPad(NatDigits(c.day), 2)

\* the byte of a character of a formatted date
ByteOf(c) == IF c = "+" THEN 43 ELSE IF c = "-" THEN 45 ELSE 48 + DigitVal(c)

\* a.cmp(&b) == Less for two Strings: byte-wise lexicographic order
RECURSIVE StrLt(_, _)
StrLt(a, b) ==
    IF b = <<>> THEN FALSE
    ELSE IF a = <<>> THEN TRUE
    ELSE IF Head(a) # Head(b) THEN ByteOf(Head(a)) < ByteOf(Head(b))
    ELSE StrLt(Tail(a), Tail(b))

----------------------------------------------------------------------------
(* services/timeline.rs: the event normalizer *)

\* value.get(f).and_then(as_str).and_then(|s| BigDecimal::from_str(s).ok())
DecimalField(v) ==
    LET s == as_str(v)
    IN  IF IsSome(s) THEN BigDecimal_from_str(s.v) ELSE None

\* value.get("time").and_then(as_i64)
\*     .map(|ts| DateTime::from_timestamp_millis(ts).unwrap_or_default())
TimestampField(v) ==
    LET t == as_i64(v)
    IN  IF IsSome(t)
        THEN Some(unwrap_or_default_instant(from_timestamp_millis(t.v)))
        ELSE None

\* Option<BigDecimal>::unwrap_or_default()
unwrap_or_default_decimal(o) == IF IsSome(o) THEN o.v ELSE DecZero

parse_fill(fill) ==
    LET timestamp == TimestampField(fill.time)
        coin == as_str(fill.coin)
        side == as_str(fill.side)
        size == DecimalField(fill.sz)
        price == DecimalField(fill.px)
        fee == unwrap_or_default_decimal(DecimalField(fill.fee))
        realized_pnl == DecimalField(fill.closedPnl)
        tx_hash == as_str(fill.hash)
    IN  IF /\ IsSome(timestamp)
           /\ IsSome(coin)
           /\ IsSome(side)
           /\ IsSome(size)
           /\ IsSome(price)
        THEN Some([event_type |-> "fill",
                   timestamp |-> timestamp.v,
                   coin |-> coin.v,
                   side |-> side.v,
                   size |-> size.v,
                   price |-> price.v,
                   fee |-> fee,
                   realized_pnl |-> realized_pnl,
                   tx_hash |-> tx_hash])
        ELSE None

parse_funding(payment) ==
    LET timestamp == TimestampField(payment.time)
        coin == as_str(payment.coin)
        amount == DecimalField(payment.usdc)
        funding_rate == unwrap_or_default_decimal(DecimalField(payment.fundingRate))
    IN  IF IsSome(timestamp) /\ IsSome(coin) /\ IsSome(amount)
        THEN Some([event_type |-> "funding",
                   timestamp |-> timestamp.v,
                   coin |-> coin.v,
                   amount |-> amount.v,
                   funding_rate |-> funding_rate])
        ELSE None

----------------------------------------------------------------------------
(* services/timeline.rs: the timeline builder *)

\* a loop that gives up at the first malformed fill
RECURSIVE ParseFillsUntilMalformed(_)
ParseFillsUntilMalformed(fills) ==
    IF fills = <<>> THEN <<>>
    ELSE LET e == parse_fill(Head(fills))
         IN  IF IsSome(e) THEN <<e.v>> \o ParseFillsUntilMalformed(Tail(fills)) ELSE <<>>

\* for fill in fills { if let Some(event) = self.parse_fill(&fill) { events.push(event) } }
RECURSIVE ParseFills(_)
ParseFills(fills) ==
    IF fills = <<>> THEN <<>>
    ELSE LET e == parse_fill(Head(fills))
         IN  (IF IsSome(e) THEN <<e.v>> ELSE <<>>) \o ParseFills(Tail(fills))

\* for payment in funding { if let Some(event) = self.parse_funding(&payment) { .. } }
RECURSIVE ParseFunding(_)
ParseFunding(funding) ==
    IF funding = <<>> THEN <<>>
    ELSE LET e == parse_funding(Head(funding))
         IN  (IF IsSome(e) THEN <<e.v>> ELSE <<>>) \o ParseFunding(Tail(funding))

\* a sort step that is not stable: e goes in front of its equals
RECURSIVE InsertBeforeEquals(_, _)
InsertBeforeEquals(sorted, e) ==
    IF sorted = <<>> THEN <<e>>
    ELSE IF TsLt(Head(sorted).timestamp, e.timestamp)
         THEN <<Head(sorted)>> \o InsertBeforeEquals(Tail(sorted), e)
         ELSE <<e>> \o sorted

\* one step of a stable sort: e goes behind every element that is not greater
RECURSIVE InsertByTimestamp(_, _)
InsertByTimestamp(sorted, e) ==
    IF sorted = <<>> THEN <<e>>
    ELSE IF TsLeq(Head(sorted).timestamp, e.timestamp)
         THEN <<Head(sorted)>> \o InsertByTimestamp(Tail(sorted), e)
         ELSE <<e>> \o sorted

\* events.sort_by(|a, b| a.timestamp().cmp(&b.timestamp())): slice::sort_by is stable
RECURSIVE sort_by_timestamp(_)
sort_by_timestamp(events) ==
    IF events = <<>> THEN <<>>
    ELSE InsertByTimestamp(sort_by_timestamp(SubSeq(events, 1, Len(events) - 1)),
                           events[Len(events)])

\* the Timeline value; the wallet string is carried through unchanged and is left out
MakeTimeline(events) ==
    [events |-> events,
     from_timestamp |-> IF events = <<>> THEN None ELSE Some(events[1].timestamp),
     to_timestamp |-> IF events = <<>> THEN None ELSE Some(events[Len(events)].timestamp)]

Ok(x) == [tag |-> "Ok", v |-> x]
Err(e) == [tag |-> "Err", e |-> e]

build_timeline(fills, funding) ==
    Ok(MakeTimeline(sort_by_timestamp(
        ParseFills(fills) \o ParseFunding(funding))))

----------------------------------------------------------------------------
(* services/pnl_calculator.rs: calculate_summary *)

NewAssetPnl(coin) ==
    [coin |-> coin, realized_pnl |-> DecZero, funding_pnl |-> DecZero,
     fees |-> DecZero, net_pnl |-> DecZero, trade_count |-> 0]

\* by_asset.entry(coin).or_insert_with(..): the map with an entry for coin
EntryOrInsert(by_asset, coin) ==
    IF coin \in DOMAIN by_asset THEN by_asset
    ELSE (coin :> NewAssetPnl(coin)) @@ by_asset

\* a Fill arm that counts a trade only when the fill closed a position
SummaryFillCountsClosingOnly(acc, e) ==
    LET m == EntryOrInsert(acc.by_asset, e.coin)
        a == m[e.coin]
        has == IsSome(e.realized_pnl)
        a2 == [a EXCEPT !.fees = DecAdd(a.fees, e.fee),
                        !.trade_count = IF has THEN a.trade_count + 1 ELSE a.trade_count,
                        !.realized_pnl = IF has THEN DecAdd(a.realized_pnl, e.realized_pnl.v)
                                         ELSE a.realized_pnl]
    IN  [acc EXCEPT !.trading_fees = DecAdd(acc.trading_fees, e.fee),
                    !.realized_pnl = IF has THEN DecAdd(acc.realized_pnl, e.realized_pnl.v)
                                     ELSE acc.realized_pnl,
                    !.by_asset = [m EXCEPT ![e.coin] = a2]]

\* the Fill arm of the match
SummaryFill(acc, e) ==
    LET m == EntryOrInsert(acc.by_asset, e.coin)
        a == m[e.coin]
        has == IsSome(e.realized_pnl)
        a2 == [a EXCEPT !.fees = DecAdd(a.fees, e.fee),
                        !.trade_count = a.trade_count + 1,
                        !.realized_pnl = IF has THEN DecAdd(a.realized_pnl, e.realized_pnl.v)
                                         ELSE a.realized_pnl]
    IN  [acc EXCEPT !.trading_fees = DecAdd(acc.trading_fees, e.fee),
                    !.realized_pnl = IF has THEN DecAdd(acc.realized_pnl, e.realized_pnl.v)
                                     ELSE acc.realized_pnl,
                    !.by_asset = [m EXCEPT ![e.coin] = a2]]

\* a Funding arm that books the amount on the global total only
SummaryFundingGlobalOnly(acc, e) ==
    [acc EXCEPT !.funding_pnl = DecAdd(acc.funding_pnl, e.amount),
                !.by_asset = EntryOrInsert(acc.by_asset, e.coin)]

\* the Funding arm of the match
SummaryFunding(acc, e) ==
    LET m == EntryOrInsert(acc.by_asset, e.coin)
        a == m[e.coin]
    IN  [acc EXCEPT !.funding_pnl = DecAdd(acc.funding_pnl, e.amount),
                    !.by_asset = [m EXCEPT ![e.coin] =
                                      [a EXCEPT !.funding_pnl = DecAdd(a.funding_pnl, e.amount)]]]

\* a loop body that books a liquidation's loss as realized PnL
SummaryStepBooksLiquidation(acc, e) ==
    IF e.event_type = "fill" THEN SummaryFill(acc, e)
    ELSE IF e.event_type = "funding" THEN SummaryFunding(acc, e)
    ELSE IF e.event_type = "liquidation"
         THEN [acc EXCEPT !.realized_pnl = DecSub(acc.realized_pnl, e.loss)]
    ELSE acc

\* the body of `for event in &timeline.events`
SummaryStep(acc, e) ==
    IF e.event_type = "fill" THEN SummaryFill(acc, e)
    ELSE IF e.event_type = "funding" THEN SummaryFunding(acc, e)
    ELSE acc

RECURSIVE SummaryPass(_, _)
SummaryPass(acc, events) ==
    IF events = <<>> THEN acc
    ELSE SummaryPass(SummaryStep(acc, Head(events)), Tail(events))

\* asset_pnl.net_pnl = &realized_pnl + &funding_pnl - &fees
AssetNet(a) == DecSub(DecAdd(a.realized_pnl, a.funding_pnl), a.fees)

\* now1, now2: what the two calls of Utc::now return
calculate_summary(tl, unrealized_pnl, now1, now2) ==
    LET acc == SummaryPass([realized_pnl |-> DecZero, funding_pnl |-> DecZero,
                            trading_fees |-> DecZero, by_asset |-> <<>>], tl.events)
        total_pnl == DecAdd(acc.realized_pnl, unrealized_pnl)
    IN  [period_start |-> IF IsSome(tl.from_timestamp) THEN tl.from_timestamp.v ELSE now1,
         period_end |-> IF IsSome(tl.to_timestamp) THEN tl.to_timestamp.v ELSE now2,
         realized_pnl |-> acc.realized_pnl,
         unrealized_pnl |-> unrealized_pnl,
         total_pnl |-> total_pnl,
         funding_pnl |-> acc.funding_pnl,
         trading_fees |-> acc.trading_fees,
         net_pnl |-> DecSub(DecAdd(total_pnl, acc.funding_pnl), acc.trading_fees),
         by_asset |-> [c \in DOMAIN acc.by_asset |->
                          [acc.by_asset[c] EXCEPT !.net_pnl = AssetNet(acc.by_asset[c])]]]

----------------------------------------------------------------------------
(* services/pnl_calculator.rs: calculate_daily *)

\* the match with the fee of a fill left out
EventPnlWithoutFee(e) ==
    IF e.event_type = "fill" THEN unwrap_or_default_decimal(e.realized_pnl)
    ELSE IF e.event_type = "funding" THEN e.amount
    ELSE IF e.event_type = "liquidation" THEN DecNeg(e.loss)
    ELSE DecZero

\* the match that gives an event's contribution to its day
EventPnl(e) ==
    IF e.event_type = "fill"
    THEN DecSub(unwrap_or_default_decimal(e.realized_pnl), e.fee)
    ELSE IF e.event_type = "funding" THEN e.amount
    ELSE IF e.event_type = "liquidation" THEN DecNeg(e.loss)
    ELSE DecZero

\* the first loop: daily_map, keyed by the formatted date
RECURSIVE DailyMap(_, _)
DailyMap(m, events) ==
    IF events = <<>> THEN m
    ELSE LET e == Head(events)
             date == FormatDate(e.timestamp)
             m1 == IF date \in DOMAIN m THEN m ELSE (date :> DecZero) @@ m
         IN  DailyMap([m1 EXCEPT ![date] = DecAdd(m1[date], EventPnl(e))], Tail(events))

\* daily_pnl.sort_by(|a, b| a.date.cmp(&b.date)) over the map's keys, which are
\* distinct, so the order the HashMap yields them in does not show
RECURSIVE SortDates(_)
SortDates(dates) ==
    IF dates = {} THEN <<>>
    ELSE LET least == CHOOSE d \in dates : \A o \in dates \ {d} : StrLt(d, o)
         IN  <<least>> \o SortDates(dates \ {least})

\* a last loop that does not carry the running total forward
RECURSIVE CumulateNoCarry(_, _, _)
CumulateNoCarry(m, dates, cumulative) ==
    IF dates = <<>> THEN <<>>
    ELSE <<[date |-> Head(dates), pnl |-> m[Head(dates)],
            cumulative_pnl |-> DecAdd(DecZero, m[Head(dates)])]>>
             \o CumulateNoCarry(m, Tail(dates), cumulative)

\* the last loop: the running total
RECURSIVE Cumulate(_, _, _)
Cumulate(m, dates, cumulative) ==
    IF dates = <<>> THEN <<>>
    ELSE LET c == DecAdd(cumulative, m[Head(dates)])
         IN  <<[date |-> Head(dates), pnl |-> m[Head(dates)], cumulative_pnl |-> c]>>
                 \o Cumulate(m, Tail(dates), c)

calculate_daily(tl) ==
    LET m == DailyMap(<<>>, tl.events)
    IN  Cumulate(m, SortDates(DOMAIN m), DecZero)

----------------------------------------------------------------------------
(* The inputs the specifications draw from *)

BTC == <<"B", "T", "C">>
ETH == <<"E", "T", "H">>
SOL == <<"S", "O", "L">>
Buy == <<"b", "u", "y">>
Sell == <<"s", "e", "l", "l">>
Bad == <<"b", "a", "d">>
TxHash == <<"0", "x", "a">>

\* "time": 8640000000000000, an i64 far beyond NaiveDate::MAX (day 100000000)
OutOfRangeTime == JInt(100000000, 0)

\* "time": 253402300800000, which is 10000-01-01T00:00:00Z (day 2932897)
Year10000Time == JInt(2932897, 0)

\* the second fill of the spec's scenario
GoodFill ==
    [time |-> JInt(0, 2000), coin |-> JStr(BTC), side |-> JStr(Sell),
     sz |-> JStr(<<"1", ".", "0">>), px |-> JStr(<<"5", "1", "0", "0", "0">>),
     fee |-> JStr(<<"5">>), closedPnl |-> JStr(<<"1", "0", "0", "0">>),
     hash |-> JStr(TxHash)]

\* a fill without the optional closedPnl and hash
NarrowFill ==
    [time |-> JInt(0, 1000), coin |-> JStr(ETH), side |-> JStr(Buy),
     sz |-> JStr(<<"1", ".", "0">>), px |-> JStr(<<"5", "0", "0", "0", "0">>),
     fee |-> JStr(<<"0", ".", "2", "5">>), closedPnl |-> JAbsent, hash |-> JAbsent]

\* a required field missing or ill-typed
FillRequiredDefects ==
    {<<"time", JAbsent>>, <<"time", JStr(<<"2", "0", "0", "0">>)>>,
     <<"coin", JAbsent>>, <<"coin", JInt(0, 7)>>,
     <<"side", JAbsent>>, <<"side", JNull>>,
     <<"sz", JAbsent>>, <<"sz", JStr(Bad)>>,
     <<"px", JAbsent>>, <<"px", JFloat>>}

\* an optional field missing or unparsable, an unrepresentable time, a time
\* past the year 9999, an empty coin
FillOtherVariants ==
    {<<"fee", JAbsent>>, <<"fee", JStr(Bad)>>,
     <<"time", OutOfRangeTime>>, <<"time", Year10000Time>>, <<"coin", JStr(<<>>)>>}

FillUniverse ==
    {GoodFill, NarrowFill}
        \cup {[GoodFill EXCEPT ![d[1]] = d[2]] : d \in FillRequiredDefects \cup FillOtherVariants}

\* the funding record of the spec's scenario
GoodFunding ==
    [time |-> JInt(0, 1500), coin |-> JStr(BTC), usdc |-> JStr(<<"-", "2", ".", "5">>),
     fundingRate |-> JStr(<<"0", ".", "0", "0", "0", "1">>)]

\* same time as GoodFill, a coin no fill trades
OtherFunding ==
    [time |-> JInt(0, 2000), coin |-> JStr(SOL), usdc |-> JStr(<<"0", ".", "7", "5">>),
     fundingRate |-> JStr(<<"0", ".", "0", "0", "0", "1">>)]

FundingRequiredDefects ==
    {<<"time", JAbsent>>, <<"time", JFloat>>,
     <<"coin", JAbsent>>, <<"coin", JNull>>,
     <<"usdc", JAbsent>>, <<"usdc", JStr(Bad)>>}

FundingOtherVariants ==
    {<<"fundingRate", JAbsent>>, <<"fundingRate", JStr(Bad)>>,
     <<"time", OutOfRangeTime>>, <<"coin", JStr(<<>>)>>}

FundingUniverse ==
    {GoodFunding, OtherFunding}
        \cup {[GoodFunding EXCEPT ![d[1]] = d[2]] :
                 d \in FundingRequiredDefects \cup FundingOtherVariants}

\* records that tie on the timestamp, told apart by side, size or amount
OrderFills ==
    {GoodFill,
     [GoodFill EXCEPT !.side = JStr(Buy)],
     [GoodFill EXCEPT !.time = JInt(0, 1000)],
     [GoodFill EXCEPT !.sz = JAbsent]}

OrderFunding ==
    {GoodFunding,
     [GoodFunding EXCEPT !.time = JInt(0, 2000)],
     [GoodFunding EXCEPT !.time = JInt(0, 2000), !.usdc = JStr(<<"3">>)]}

\* the unrealized_pnl figures handed to calculate_summary
UnrealizedInputs == {DecZero, Dec(125, 1)}

\* what Utc::now may return: two instants of 2024-01-01
ClockReadings == {Instant(19723, 0), Instant(19723, 1)}

\* length of the two raw lists together, for the defect universes
MaxRecords == 2
\* length of the two raw lists together, for the tie universes
MaxOrderRecords == 4

RawInputs(fillSet, fundingSet, n) ==
    {in \in SeqsUpTo(fillSet, n) \X SeqsUpTo(fundingSet, n) : Len(in[1]) + Len(in[2]) <= n}

----------------------------------------------------------------------------
(* The request pipeline: build_timeline, then the aggregators *)

HandlerIdle ==
    /\ user_state = None
    /\ calls = <<>>
    /\ response = None

FetchIdle ==
    /\ upstream = <<>>
    /\ start_time = None
    /\ current_start_time = None
    /\ all_items = <<>>
    /\ page = <<>>
    /\ requests = <<>>
    /\ fetched = None

InitPipeline(inputs) ==
    /\ pc = "start"
    /\ \E in \in inputs : rawFills = in[1] /\ rawFunding = in[2]
    /\ timeline = None
    /\ unrealized = DecZero
    /\ summary = None
    /\ daily = None
    /\ FetchIdle
    /\ HandlerIdle

Init == InitPipeline(RawInputs(FillUniverse, FundingUniverse, MaxRecords))

InitOrder == InitPipeline(RawInputs(OrderFills, OrderFunding, MaxOrderRecords))

\* handlers: state.timeline_service.build_timeline(&query.wallet, fills, funding)
BuildTimeline ==
    /\ pc = "start"
    /\ timeline' = build_timeline(rawFills, rawFunding)
    /\ pc' = "built"
    /\ UNCHANGED <<rawFills, rawFunding, unrealized, summary, daily>>
    /\ UNCHANGED fetchVars
    /\ UNCHANGED handlerVars

\* get_pnl_summary: state.pnl_calculator.calculate_summary(.., &timeline, unrealized_pnl)
CalculateSummary ==
    /\ pc = "built"
    /\ summary = None
    /\ \E u \in UnrealizedInputs, now1 \in ClockReadings, now2 \in ClockReadings :
          /\ unrealized' = u
          /\ summary' = Some(calculate_summary(timeline.v, u, now1, now2))
    /\ UNCHANGED <<pc, rawFills, rawFunding, timeline, daily>>
    /\ UNCHANGED fetchVars
    /\ UNCHANGED handlerVars

\* get_daily_pnl: state.pnl_calculator.calculate_daily(&timeline)
CalculateDaily ==
    /\ pc = "built"
    /\ daily = None
    /\ daily' = Some(calculate_daily(timeline.v))
    /\ UNCHANGED <<pc, rawFills, rawFunding, timeline, unrealized, summary>>
    /\ UNCHANGED fetchVars
    /\ UNCHANGED handlerVars

Next == BuildTimeline \/ CalculateSummary \/ CalculateDaily

Spec == Init /\ [][Next]_vars

SpecOrder == InitOrder /\ [][Next]_vars

----------------------------------------------------------------------------
(* The aggregators over any timeline: events of all five variants, in any order *)

FillEvent(ts, coin, fee, rpnl) ==
    [event_type |-> "fill", timestamp |-> ts, coin |-> coin, side |-> Buy,
     size |-> Dec(10, 1), price |-> Dec(50000, 0), fee |-> fee,
     realized_pnl |-> rpnl, tx_hash |-> None]

FundingEvent(ts, coin, amount) ==
    [event_type |-> "funding", timestamp |-> ts, coin |-> coin, amount |-> amount,
     funding_rate |-> Dec(1, 4)]

LiquidationEvent(ts, coin, loss) ==
    [event_type |-> "liquidation", timestamp |-> ts, coin |-> coin,
     size |-> Dec(10, 1), price |-> Dec(50000, 0), loss |-> loss]

TransferEvent(type, ts, amount) ==
    [event_type |-> type, timestamp |-> ts, amount |-> amount,
     token |-> <<"U", "S", "D", "C">>]

EventUniverse ==
    {FillEvent(Instant(0, 1000), BTC, Dec(5, 0), None),
     FillEvent(Instant(0, 2000), BTC, Dec(5, 0), Some(Dec(1000, 0))),
     FillEvent(Instant(1, 0), ETH, Dec(25, 2), Some(Dec(-25, 1))),
     FundingEvent(Instant(0, 1500), BTC, Dec(-25, 1)),
     FundingEvent(Instant(1, 0), SOL, Dec(75, 2)),
     LiquidationEvent(Instant(1, 500), BTC, Dec(100, 0)),
     TransferEvent("deposit", Instant(2, 0), Dec(50, 0)),
     TransferEvent("withdrawal", Instant(0, 0), Dec(20, 0))}

\* length of a timeline drawn from EventUniverse
MaxEvents == 3

InitPnl ==
    /\ pc = "built"
    /\ rawFills = <<>>
    /\ rawFunding = <<>>
    /\ \E events \in SeqsUpTo(EventUniverse, MaxEvents) : timeline = Ok(MakeTimeline(events))
    /\ unrealized = DecZero
    /\ summary = None
    /\ daily = None
    /\ FetchIdle
    /\ HandlerIdle

NextPnl == CalculateSummary \/ CalculateDaily

SpecPnl == InitPnl /\ [][NextPnl]_vars

----------------------------------------------------------------------------
(* Helpers of the properties *)

Range(s) == {s[i] : i \in DOMAIN s}

TimelineEvents == timeline.v.events

\* the events build_timeline parsed, in input order: fills, then funding
ParsedInOrder == ParseFills(rawFills) \o ParseFunding(rawFunding)

\* the subsequence of s stamped t
StampedAt(s, t) == SelectSeq(s, LAMBDA e : e.timestamp = t)

\* the sum of the values of a map (a function to BigDecimal) over keys
RECURSIVE SumOver(_, _)
SumOver(f, keys) ==
    IF keys = {} THEN DecZero
    ELSE LET k == CHOOSE x \in keys : TRUE
         IN  DecAdd(f[k], SumOver(f, keys \ {k}))

----------------------------------------------------------------------------
(* C1: the events of the timeline build_timeline returns are non-decreasing in
   timestamp, and events of equal timestamp keep their input order: for every
   timestamp, the events stamped with it are, in order, the parsed fills and
   then the parsed funding records stamped with it. *)
C1_TimelineStableSorted ==
    pc = "built" =>
        /\ \A i, j \in DOMAIN TimelineEvents :
               i < j => TsLeq(TimelineEvents[i].timestamp, TimelineEvents[j].timestamp)
        /\ Len(TimelineEvents) = Len(ParsedInOrder)
        /\ \A e \in Range(ParsedInOrder) \cup Range(TimelineEvents) :
               StampedAt(TimelineEvents, e.timestamp) = StampedAt(ParsedInOrder, e.timestamp)

\* four events, two different fills tie, a fill and a funding record tie, and
\* the sort had to move events
C1_Witness ==
    /\ pc = "built"
    /\ Len(TimelineEvents) = 4
    /\ TimelineEvents # ParsedInOrder
    /\ \E i \in 1..3 :
           /\ TimelineEvents[i].event_type = "fill"
           /\ TimelineEvents[i + 1].event_type = "funding"
           /\ TimelineEvents[i].timestamp = TimelineEvents[i + 1].timestamp
    /\ \E i \in 1..3 :
           /\ TimelineEvents[i].event_type = "fill"
           /\ TimelineEvents[i + 1].event_type = "fill"
           /\ TimelineEvents[i] # TimelineEvents[i + 1]
           /\ TimelineEvents[i].timestamp = TimelineEvents[i + 1].timestamp

----------------------------------------------------------------------------
(* datasource/hyperliquid/info_client.rs: fetch_paginated *)

\* the page size; 500 in the source, scaled down
MAX_ITEMS_PER_REQUEST == 2

\* the largest time (ms) of an upstream record below i64::MAX
MaxTime == 3
\* the most records the upstream holds
MaxUpstream == 5

\* the most requests of one fetch the model follows
MaxRequests == 4

\* i64::MAX and i64::MIN as millisecond counts: 9223372036854775807 is day
\* 106751991167, ms 25975807, and -9223372036854775808 is day -106751991168,
\* ms 60424192; the day numbers are cut to fit the model checker's integers
I64_MAX == Instant(2147483646, 25975807)
I64_MIN == Instant(-2147483647, 60424192)

\* ts + 1 overflows the i64
Overflows(ts) == ts = I64_MAX

\* ts + 1 on the millisecond count, wrapping as the i64 addition of a build
\* without overflow checks
TsPlus1(ts) ==
    IF Overflows(ts) THEN I64_MIN
    ELSE IF ts.ms + 1 = 86400000 THEN Instant(ts.day + 1, 0) ELSE Instant(ts.day, ts.ms + 1)

\* the times of the upstream's records: 1..MaxTime ms, and i64::MAX
TimeOf(k) == IF k <= MaxTime THEN Instant(0, k) ELSE I64_MAX

\* a record the exchange holds: t is the time it files the record under, time
\* the "time" field it serializes
UpstreamRecord(i, t, time) == [id |-> i, t |-> t, time |-> time]

\* the records of the upstream a request with this startTime is about
InRange(records, start) ==
    SelectSeq(records, LAMBDA r : ~IsSome(start) \/ TsLeq(start.v, r.t))

\* the page contract: at most a page of the records with time >= startTime, in
\* time-ascending order
UpstreamPage(records, start) ==
    LET r == InRange(records, start)
    IN  SubSeq(r, 1, IF Len(r) < MAX_ITEMS_PER_REQUEST THEN Len(r) ELSE MAX_ITEMS_PER_REQUEST)

\* the time-ascending record lists: every time well-formed, but for at most one
Upstreams ==
    LET times == {ts \in SeqsUpTo(1..(MaxTime + 1), MaxUpstream) :
                      \A i \in 1..(Len(ts) - 1) : ts[i] <= ts[i + 1]}
    IN  {[i \in DOMAIN ts |->
             LET t == TimeOf(ts[i])
             IN  UpstreamRecord(i, t, IF i = bad THEN JAbsent ELSE JInt(t.day, t.ms))] :
         ts \in times, bad \in 0..MaxUpstream}

InitFetch ==
    /\ pc = "fetching"
    /\ rawFills = <<>>
    /\ rawFunding = <<>>
    /\ timeline = None
    /\ unrealized = DecZero
    /\ summary = None
    /\ daily = None
    /\ upstream \in Upstreams
    /\ start_time \in {None} \cup {Some(Instant(0, t)) : t \in 1..MaxTime}
    /\ current_start_time = start_time
    /\ all_items = <<>>
    /\ page = <<>>
    /\ requests = <<>>
    /\ fetched = None
    /\ HandlerIdle

\* one turn of the loop whose self.post(payload).await? returned a page; when
\* ts + 1 overflows, a build with overflow checks panics and one without wraps
PostOk ==
    /\ pc = "fetching"
    /\ Len(requests) < MaxRequests
    /\ LET items == UpstreamPage(upstream, current_start_time)
           items_count == Len(items)
           last_timestamp == IF items = <<>> THEN None ELSE as_i64(items[items_count].time)
       IN  /\ page' = items
           /\ requests' = Append(requests, current_start_time)
           /\ IF items = <<>>
              THEN /\ fetched' = Some(Ok(all_items))
                   /\ pc' = "fetched"
                   /\ UNCHANGED <<all_items, current_start_time>>
              ELSE /\ all_items' = all_items \o items
                   /\ IF items_count < MAX_ITEMS_PER_REQUEST \/ ~IsSome(last_timestamp)
                      THEN /\ fetched' = Some(Ok(all_items'))
                           /\ pc' = "fetched"
                           /\ UNCHANGED current_start_time
                      ELSE \/ /\ current_start_time' = Some(TsPlus1(last_timestamp.v))
                              /\ UNCHANGED <<fetched, pc>>
                           \/ /\ Overflows(last_timestamp.v)
                              /\ pc' = "panicked"
                              /\ UNCHANGED <<fetched, current_start_time>>
    /\ UNCHANGED <<upstream, start_time>>
    /\ UNCHANGED pipelineVars
    /\ UNCHANGED handlerVars

\* a failed send or an undecodable body is a RequestError (the ? of post), a
\* status that is not a success an ExternalApiError
FetchErrors == {"RequestError", "ExternalApiError"}

\* one turn of the loop whose self.post(payload).await? returned an error: the
\* request failed or the status was not a success
PostErr ==
    /\ pc = "fetching"
    /\ Len(requests) < MaxRequests
    /\ requests' = Append(requests, current_start_time)
    /\ \E e \in FetchErrors : fetched' = Some(Err(e))
    /\ pc' = "fetched"
    /\ UNCHANGED <<upstream, start_time, current_start_time, all_items, page>>
    /\ UNCHANGED pipelineVars
    /\ UNCHANGED handlerVars

NextFetch == PostOk \/ PostErr

SpecFetch == InitFetch /\ [][NextFetch]_vars

\* every awaited request resolves, with a page or with an error
SpecFetchFair == SpecFetch /\ WF_vars(NextFetch)

----------------------------------------------------------------------------
(* What a well-typed record is, stated on the raw JSON and not through the
   parser: the decimal strings among the inputs are listed by hand. *)

DecimalTexts ==
    {<<"1", ".", "0">>, <<"5", "1", "0", "0", "0">>, <<"5", "0", "0", "0", "0">>,
     <<"5">>, <<"0", ".", "2", "5">>, <<"1", "0", "0", "0">>, <<"-", "2", ".", "5">>,
     <<"0", ".", "7", "5">>, <<"0", ".", "0", "0", "0", "1">>, <<"3">>}

IsDecimalString(v) == v.k = "str" /\ v.s \in DecimalTexts

\* time an integer, coin and side strings, sz and px decimal strings
FillWellTyped(r) ==
    /\ r.time.k = "int"
    /\ r.coin.k = "str"
    /\ r.side.k = "str"
    /\ IsDecimalString(r.sz)
    /\ IsDecimalString(r.px)

\* time an integer, coin a string, usdc a decimal string
FundingWellTyped(r) ==
    /\ r.time.k = "int"
    /\ r.coin.k = "str"
    /\ IsDecimalString(r.usdc)

CountWhere(s, keep) == Cardinality({i \in DOMAIN s : keep[i]})

WellTypedFills == CountWhere(rawFills, [i \in DOMAIN rawFills |-> FillWellTyped(rawFills[i])])
WellTypedFunding ==
    CountWhere(rawFunding, [i \in DOMAIN rawFunding |-> FundingWellTyped(rawFunding[i])])

EventsOfType(type) == SelectSeq(TimelineEvents, LAMBDA e : e.event_type = type)

\* the events a record yields when it is the whole batch
SoloFill(r) == build_timeline(<<r>>, <<>>).v.events
SoloFunding(r) == build_timeline(<<>>, <<r>>).v.events

(* C5: build_timeline returns Ok; the fill events are as many as the well-typed
   fill records and the funding events as many as the well-typed funding records
   of the batch; a record that is not well-typed yields no event, a well-typed
   one yields exactly one, which is in the batch's timeline whatever its
   siblings are; a missing or unparsable fee or fundingRate gives zero, a
   missing closedPnl or hash gives an absent field. *)
C5_MalformedRecordsFiltered ==
    pc = "built" =>
        /\ timeline.tag = "Ok"
        /\ Len(EventsOfType("fill")) = WellTypedFills
        /\ Len(EventsOfType("funding")) = WellTypedFunding
        /\ Len(TimelineEvents) = WellTypedFills + WellTypedFunding
        /\ \A i \in DOMAIN rawFills :
               LET r == rawFills[i]
                   solo == SoloFill(r)
               IN  IF FillWellTyped(r)
                   THEN /\ Len(solo) = 1
                        /\ solo[1] \in Range(TimelineEvents)
                        /\ solo[1].event_type = "fill"
                        /\ ~IsDecimalString(r.fee) => DecEq(solo[1].fee, DecZero)
                        /\ r.closedPnl.k = "absent" => solo[1].realized_pnl = None
                        /\ r.hash.k = "absent" => solo[1].tx_hash = None
                   ELSE solo = <<>>
        /\ \A i \in DOMAIN rawFunding :
               LET r == rawFunding[i]
                   solo == SoloFunding(r)
               IN  IF FundingWellTyped(r)
                   THEN /\ Len(solo) = 1
                        /\ solo[1] \in Range(TimelineEvents)
                        /\ solo[1].event_type = "funding"
                        /\ ~IsDecimalString(r.fundingRate) => DecEq(solo[1].funding_rate, DecZero)
                   ELSE solo = <<>>

\* a fill whose sz is not a decimal string comes first and is dropped; its
\* sibling, without a fee, gives the only event, with fee zero
C5_Witness ==
    /\ pc = "built"
    /\ rawFills = <<[GoodFill EXCEPT !.sz = JStr(Bad)], [GoodFill EXCEPT !.fee = JAbsent]>>
    /\ rawFunding = <<>>
    /\ Len(TimelineEvents) = 1
    /\ TimelineEvents[1].coin = BTC
    /\ DecEq(TimelineEvents[1].fee, DecZero)

----------------------------------------------------------------------------
\* the instant an integer time converts to, if it is representable
Representable(v) == v.k = "int" /\ IsSome(from_timestamp_millis(as_i64(v).v))

RawTimes == {rawFills[i].time : i \in DOMAIN rawFills}
               \cup {rawFunding[i].time : i \in DOMAIN rawFunding}

(* C9: a record whose integer time cannot be converted to a UTC instant is
   dropped: the events are as many as the well-typed records with a
   representable time, and every event's timestamp is the time of a record. *)
C9_UnrepresentableTimeDropped ==
    pc = "built" =>
        /\ Len(TimelineEvents) =
               CountWhere(rawFills, [i \in DOMAIN rawFills |->
                              FillWellTyped(rawFills[i]) /\ Representable(rawFills[i].time)])
               + CountWhere(rawFunding, [i \in DOMAIN rawFunding |->
                              FundingWellTyped(rawFunding[i]) /\ Representable(rawFunding[i].time)])
        /\ \A e \in Range(TimelineEvents) :
               \E v \in RawTimes : v.k = "int" /\ e.timestamp = Instant(v.day, v.ms)

(* C10: coin must be a non-empty string: no event of the timeline and no
   by_asset entry of the summary carries an empty coin symbol. *)
C10_NoEmptyCoin ==
    /\ pc = "built" => \A e \in Range(TimelineEvents) : e.coin # <<>>
    /\ IsSome(summary) => \A c \in DOMAIN summary.v.by_asset :
                              c # <<>> /\ summary.v.by_asset[c].coin # <<>>

----------------------------------------------------------------------------
\* the days (since the epoch) of the events bucketed under a date string
DaysOf(date) == {e.timestamp.day : e \in {x \in Range(TimelineEvents) : FormatDate(x.timestamp) = date}}

EventDates == {FormatDate(e.timestamp) : e \in Range(TimelineEvents)}

(* C8: calculate_daily returns exactly one entry per UTC date that has an event,
   and the entries are in ascending chronological order of their dates. *)
C8_DailyOnePerDateChronological ==
    IsSome(daily) =>
        LET d == daily.v
        IN  /\ {d[i].date : i \in DOMAIN d} = EventDates
            /\ \A i, j \in DOMAIN d : i # j => d[i].date # d[j].date
            /\ \A i, j \in DOMAIN d :
                   i < j => \A a \in DaysOf(d[i].date), b \in DaysOf(d[j].date) : a < b

----------------------------------------------------------------------------
(* Properties of calculate_summary *)

ByAsset == summary.v.by_asset

FillEvents == EventsOfType("fill")
FundingEvents == EventsOfType("funding")

\* the realized PnL a fill carries, zero when it carries none
PresentRealized(e) == IF IsSome(e.realized_pnl) THEN e.realized_pnl.v ELSE DecZero

EventsOfCoin(events, c) == SelectSeq(events, LAMBDA e : e.coin = c)

(* C2: sum decomposition: the realized_pnl, funding_pnl and fees of the by_asset
   entries add up to the summary's realized_pnl, funding_pnl and trading_fees. *)
C2_SumDecomposition ==
    IsSome(summary) =>
        /\ DecEq(SumOver([c \in DOMAIN ByAsset |-> ByAsset[c].realized_pnl], DOMAIN ByAsset),
                 summary.v.realized_pnl)
        /\ DecEq(SumOver([c \in DOMAIN ByAsset |-> ByAsset[c].funding_pnl], DOMAIN ByAsset),
                 summary.v.funding_pnl)
        /\ DecEq(SumOver([c \in DOMAIN ByAsset |-> ByAsset[c].fees], DOMAIN ByAsset),
                 summary.v.trading_fees)

\* three coins, a liquidation in the timeline, and all three totals non-zero
C2_Witness ==
    /\ IsSome(summary)
    /\ Cardinality(DOMAIN ByAsset) = 3
    /\ ~DecEq(summary.v.realized_pnl, DecZero)
    /\ ~DecEq(summary.v.funding_pnl, DecZero)
    /\ ~DecEq(summary.v.trading_fees, DecZero)

(* C4: total_pnl = realized_pnl + unrealized_pnl and net_pnl = total_pnl +
   funding_pnl - trading_fees, where realized_pnl is the sum of the present
   realized PnL of the Fill events, funding_pnl the sum of the Funding amounts
   and trading_fees the sum of the Fill fees, so that events of the other
   variants change nothing; every by_asset entry has net_pnl = realized_pnl +
   funding_pnl - fees. *)
C4_SummaryTotals ==
    IsSome(summary) =>
        LET sm == summary.v
        IN  /\ sm.unrealized_pnl = unrealized
            /\ DecEq(sm.realized_pnl,
                     DecSum([i \in DOMAIN FillEvents |-> PresentRealized(FillEvents[i])]))
            /\ DecEq(sm.funding_pnl,
                     DecSum([i \in DOMAIN FundingEvents |-> FundingEvents[i].amount]))
            /\ DecEq(sm.trading_fees, DecSum([i \in DOMAIN FillEvents |-> FillEvents[i].fee]))
            /\ DecEq(sm.total_pnl, DecAdd(sm.realized_pnl, sm.unrealized_pnl))
            /\ DecEq(sm.net_pnl, DecSub(DecAdd(sm.total_pnl, sm.funding_pnl), sm.trading_fees))
            /\ \A c \in DOMAIN sm.by_asset :
                   LET a == sm.by_asset[c]
                   IN  DecEq(a.net_pnl, DecSub(DecAdd(a.realized_pnl, a.funding_pnl), a.fees))

\* a closing fill, a liquidation and a deposit, with a non-zero unrealized_pnl
C4_Witness ==
    /\ IsSome(summary)
    /\ ~DecEq(unrealized, DecZero)
    /\ ~DecEq(summary.v.realized_pnl, DecZero)
    /\ \E e \in Range(TimelineEvents) : e.event_type = "liquidation"
    /\ \E e \in Range(TimelineEvents) : e.event_type = "deposit"

(* C7: by_asset has an entry for a coin exactly when a Fill or Funding event
   references the coin; the entry's trade_count is the number of the coin's Fill
   events, with or without realized PnL, and its fees are the sum of their fees;
   a coin that only Funding events reference has trade_count 0. *)
C7_ByAssetEntries ==
    IsSome(summary) =>
        /\ DOMAIN ByAsset = {e.coin : e \in Range(FillEvents) \cup Range(FundingEvents)}
        /\ \A c \in DOMAIN ByAsset :
               LET fills == EventsOfCoin(FillEvents, c)
               IN  /\ ByAsset[c].coin = c
                   /\ ByAsset[c].trade_count = Len(fills)
                   /\ DecEq(ByAsset[c].fees, DecSum([i \in DOMAIN fills |-> fills[i].fee]))
                   /\ fills = <<>> => ByAsset[c].trade_count = 0

\* BTC has one fill, without realized PnL, and was liquidated; SOL has funding only
C7_Witness ==
    /\ IsSome(summary)
    /\ DOMAIN ByAsset = {BTC, SOL}
    /\ ByAsset[BTC].trade_count = 1
    /\ DecEq(ByAsset[BTC].realized_pnl, DecZero)
    /\ DecEq(ByAsset[BTC].fees, Dec(5, 0))
    /\ ByAsset[SOL].trade_count = 0
    /\ \E e \in Range(TimelineEvents) : e.event_type = "liquidation"

----------------------------------------------------------------------------
(* Properties of calculate_daily *)

\* what an event adds to its day, by variant
Contribution(e) ==
    CASE e.event_type = "fill" -> DecSub(PresentRealized(e), e.fee)
      [] e.event_type = "funding" -> e.amount
      [] e.event_type = "liquidation" -> DecSub(DecZero, e.loss)
      [] OTHER -> DecZero

EventsOn(date) == SelectSeq(TimelineEvents, LAMBDA e : FormatDate(e.timestamp) = date)

(* C3: daily cumulative law: the first entry's cumulative_pnl is its pnl, every
   later entry's cumulative_pnl is the previous one plus its pnl, the last
   cumulative_pnl is the sum of all pnl, and an entry's pnl is the sum of the
   contributions of its date's events. *)
C3_DailyCumulativeLaw ==
    IsSome(daily) =>
        LET d == daily.v
        IN  /\ d # <<>> => DecEq(d[1].cumulative_pnl, d[1].pnl)
            /\ \A i \in DOMAIN d :
                   i > 1 => DecEq(d[i].cumulative_pnl, DecAdd(d[i - 1].cumulative_pnl, d[i].pnl))
            /\ d # <<>> => DecEq(d[Len(d)].cumulative_pnl, DecSum([i \in DOMAIN d |-> d[i].pnl]))
            /\ \A i \in DOMAIN d :
                   LET on == EventsOn(d[i].date)
                   IN  DecEq(d[i].pnl, DecSum([k \in DOMAIN on |-> Contribution(on[k])]))

\* three days, a liquidation among the events, and a running total that differs
\* from the day's own pnl
C3_Witness ==
    /\ IsSome(daily)
    /\ Len(daily.v) = 3
    /\ \E e \in Range(TimelineEvents) : e.event_type = "liquidation"
    /\ ~DecEq(daily.v[2].cumulative_pnl, daily.v[2].pnl)
    /\ ~DecEq(daily.v[3].cumulative_pnl, daily.v[3].pnl)

----------------------------------------------------------------------------
(* Properties of fetch_paginated *)

\* every record the upstream holds serializes its time
ContractHonored ==
    \A i \in DOMAIN upstream : as_i64(upstream[i].time) = Some(upstream[i].t)

FetchedOk == pc = "fetched" /\ IsSome(fetched) /\ fetched.v.tag = "Ok"

(* C6: pagination completeness: when the upstream honors the page contract, the
   list fetch_paginated returns is the upstream's records from start_time on,
   each exactly once, in time-ascending order. *)
C6_PaginationComplete ==
    (FetchedOk /\ ContractHonored) => fetched.v.v = InRange(upstream, start_time)

----------------------------------------------------------------------------
(* C11: for a timeline with no events, calculate_summary's period_start and
   period_end are equal, both the same reading of the clock, whatever the clock
   does during the call; for a non-empty timeline of build_timeline they are
   the timestamps of the first and the last event, and period_start <=
   period_end. *)
C11_PeriodSpan ==
    (pc = "built" /\ IsSome(summary)) =>
        LET sm == summary.v
        IN  IF TimelineEvents = <<>>
            THEN /\ sm.period_start = sm.period_end
                 /\ sm.period_start \in ClockReadings
            ELSE /\ sm.period_start = TimelineEvents[1].timestamp
                 /\ sm.period_end = TimelineEvents[Len(TimelineEvents)].timestamp
                 /\ TsLeq(sm.period_start, sm.period_end)

----------------------------------------------------------------------------
(* services/pnl_calculator.rs: calculate_unrealized_from_state, over a
   serde_json Value that is an object or an array *)

JArray(items) == [k |-> "array", items |-> items]
JObject(fields) == [k |-> "object", fields |-> fields]

\* Value::get(key): the member of an object, JAbsent for anything else
get(v, key) ==
    IF v.k = "object" /\ key \in DOMAIN v.fields THEN v.fields[key] ELSE JAbsent

\* Value::as_array: Some only for an array
as_array(v) == IF v.k = "array" THEN Some(v.items) ELSE None

\* positions.iter().filter_map(|p| p.get("position").and_then(..unrealizedPnl..))
RECURSIVE PositionPnls(_)
PositionPnls(positions) ==
    IF positions = <<>> THEN <<>>
    ELSE LET pnl == DecimalField(get(get(Head(positions), "position"), "unrealizedPnl"))
         IN  (IF IsSome(pnl) THEN <<pnl.v>> ELSE <<>>) \o PositionPnls(Tail(positions))

\* .fold(acc, |acc, pnl| &acc + &pnl)
RECURSIVE FoldPnl(_, _)
FoldPnl(acc, pnls) ==
    IF pnls = <<>> THEN acc ELSE FoldPnl(DecAdd(acc, Head(pnls)), Tail(pnls))

calculate_unrealized_from_state(state) ==
    LET positions == as_array(get(state, "assetPositions"))
    IN  IF IsSome(positions) THEN FoldPnl(DecZero, PositionPnls(positions.v)) ELSE DecZero

----------------------------------------------------------------------------
(* error.rs: AppError and its HTTP response *)

NOT_FOUND == 404
BAD_REQUEST == 400
BAD_GATEWAY == 502
INTERNAL_SERVER_ERROR == 500
OK == 200

\* the mapping with RequestError taken for an internal error
into_response_RequestInternal(e) ==
    [status |-> CASE e = "NotFound" -> NOT_FOUND
                  [] e = "ValidationError" -> BAD_REQUEST
                  [] e = "ExternalApiError" -> BAD_GATEWAY
                  [] OTHER -> INTERNAL_SERVER_ERROR,
     body |-> None]

into_response(e) ==
    [status |-> CASE e = "NotFound" -> NOT_FOUND
                  [] e = "ValidationError" -> BAD_REQUEST
                  [] e = "ExternalApiError" -> BAD_GATEWAY
                  [] e = "RequestError" -> BAD_GATEWAY
                  [] e = "SerializationError" -> INTERNAL_SERVER_ERROR
                  [] e = "InternalError" -> INTERNAL_SERVER_ERROR,
     body |-> None]

----------------------------------------------------------------------------
(* handlers/pnl.rs: get_pnl_summary, one action per await and one for the
   synchronous rest of the handler *)

\* the lists the two paginated fetches may return
HandlerFills == {GoodFill, NarrowFill, [GoodFill EXCEPT !.sz = JAbsent]}
HandlerFunding == {GoodFunding, OtherFunding}

\* length of a list a fetch returns
MaxFetched == 2

AssetPosition(pnl) == JObject([position |-> JObject([unrealizedPnl |-> pnl])])

\* the clearinghouse states the user-state fetch may return
UserStates ==
    {JObject([assetPositions |-> JArray(<<>>)]),
     JObject([assetPositions |-> JArray(<<AssetPosition(JStr(<<"1", "2", ".", "5">>))>>)]),
     JObject([assetPositions |->
                  JArray(<<AssetPosition(JStr(<<"1", "2", ".", "5">>)),
                           AssetPosition(JFloat),
                           JObject([type |-> JStr(<<"o", "n", "e", "W", "a", "y">>)]),
                           AssetPosition(JStr(<<"-", "2", ".", "5">>))>>)]),
     JObject([assetPositions |-> JNull]),
     JObject([marginSummary |-> JNull])}

\* what an awaited fetch resolves to
FetchOutcomes(values) == {Ok(v) : v \in values} \cup {Err(e) : e \in FetchErrors}

\* an issued fetch and how it ended
Call(name, outcome) ==
    [fetch |-> name, result |-> IF outcome.tag = "Ok" THEN "Ok" ELSE outcome.e]

InitHandler ==
    /\ pc = "fetch_fills"
    /\ rawFills = <<>>
    /\ rawFunding = <<>>
    /\ timeline = None
    /\ unrealized = DecZero
    /\ summary = None
    /\ daily = None
    /\ FetchIdle
    /\ HandlerIdle

\* state.ingestion_service.fetch_all_fills(&query.wallet, query.since).await?
FetchAllFills ==
    /\ pc = "fetch_fills"
    /\ \E outcome \in FetchOutcomes(SeqsUpTo(HandlerFills, MaxFetched)) :
          /\ calls' = Append(calls, Call("userFills", outcome))
          /\ IF outcome.tag = "Ok"
             THEN /\ rawFills' = outcome.v
                  /\ pc' = "fetch_funding"
                  /\ UNCHANGED response
             ELSE /\ response' = Some(into_response(outcome.e))
                  /\ pc' = "responded"
                  /\ UNCHANGED rawFills
    /\ UNCHANGED <<rawFunding, timeline, unrealized, summary, daily, user_state>>
    /\ UNCHANGED fetchVars

\* state.ingestion_service.fetch_all_funding(&query.wallet, query.since).await?
FetchAllFunding ==
    /\ pc = "fetch_funding"
    /\ \E outcome \in FetchOutcomes(SeqsUpTo(HandlerFunding, MaxFetched)) :
          /\ calls' = Append(calls, Call("userFunding", outcome))
          /\ IF outcome.tag = "Ok"
             THEN /\ rawFunding' = outcome.v
                  /\ pc' = "fetch_user_state"
                  /\ UNCHANGED response
             ELSE /\ response' = Some(into_response(outcome.e))
                  /\ pc' = "responded"
                  /\ UNCHANGED rawFunding
    /\ UNCHANGED <<rawFills, timeline, unrealized, summary, daily, user_state>>
    /\ UNCHANGED fetchVars

\* state.ingestion_service.fetch_user_state(&query.wallet).await?
FetchUserState ==
    /\ pc = "fetch_user_state"
    /\ \E outcome \in FetchOutcomes(UserStates) :
          /\ calls' = Append(calls, Call("clearinghouseState", outcome))
          /\ IF outcome.tag = "Ok"
             THEN /\ user_state' = Some(outcome.v)
                  /\ pc' = "aggregate"
                  /\ UNCHANGED response
             ELSE /\ response' = Some(into_response(outcome.e))
                  /\ pc' = "responded"
                  /\ UNCHANGED user_state
    /\ UNCHANGED <<rawFills, rawFunding, timeline, unrealized, summary, daily>>
    /\ UNCHANGED fetchVars

\* build_timeline(..)?, calculate_unrealized_from_state, calculate_summary and
\* Ok(Json(summary))
Aggregate ==
    /\ pc = "aggregate"
    /\ LET built == build_timeline(rawFills, rawFunding)
           unrealized_pnl == calculate_unrealized_from_state(user_state.v)
       IN  /\ timeline' = built
           /\ IF built.tag = "Ok"
              THEN \E now1 \in ClockReadings, now2 \in ClockReadings :
                      /\ unrealized' = unrealized_pnl
                      /\ summary' = Some(calculate_summary(built.v, unrealized_pnl, now1, now2))
                      /\ response' = Some([status |-> OK, body |-> summary'])
              ELSE /\ response' = Some(into_response(built.e))
                   /\ UNCHANGED <<unrealized, summary>>
    /\ pc' = "responded"
    /\ UNCHANGED <<rawFills, rawFunding, daily, user_state, calls>>
    /\ UNCHANGED fetchVars

NextHandler == FetchAllFills \/ FetchAllFunding \/ FetchUserState \/ Aggregate

SpecHandler == InitHandler /\ [][NextHandler]_vars

----------------------------------------------------------------------------
(* Properties of get_pnl_summary *)

ThreeFetches == <<"userFills", "userFunding", "clearinghouseState">>

AllFetchesOk == Len(calls) = 3 /\ \A i \in DOMAIN calls : calls[i].result = "Ok"

(* C12: in every /pnl request the fetches are issued in the order fills,
   funding, user state, each at most once; the timeline and the summary are
   computed only after all three have succeeded; when a fetch fails, no later
   fetch is issued, nothing is retried, the request ends with HTTP 502 and no
   timeline or summary is computed. *)
C12_FetchesBeforeAggregation ==
    /\ Len(calls) <= 3
    /\ \A i \in DOMAIN calls : calls[i].fetch = ThreeFetches[i]
    /\ \A i \in DOMAIN calls : i < Len(calls) => calls[i].result = "Ok"
    /\ (timeline # None \/ summary # None) => AllFetchesOk
    /\ \A i \in DOMAIN calls :
           calls[i].result # "Ok" =>
               /\ pc = "responded"
               /\ response = Some([status |-> 502, body |-> None])
               /\ timeline = None
               /\ summary = None
    /\ (pc = "responded" /\ AllFetchesOk) =>
           /\ IsSome(summary)
           /\ response = Some([status |-> 200, body |-> summary])

\* the fills fetch returned records, the funding fetch failed on the network:
\* the request has ended with 502 and the user state was never asked for
C12_Witness ==
    /\ Len(calls) = 2
    /\ calls[2] = [fetch |-> "userFunding", result |-> "RequestError"]
    /\ rawFills # <<>>
    /\ pc = "responded"
    /\ response.v.status = 502

----------------------------------------------------------------------------
\* each request after the first carries a startTime, later than the one before
RequestsAdvance ==
    \A i \in 2..Len(requests) :
        /\ IsSome(requests[i])
        /\ IsSome(requests[i - 1]) => TsLt(requests[i - 1].v, requests[i].v)

\* the page just received ends the loop: empty, short, or no integer last time
LastPage(items) ==
    \/ items = <<>>
    \/ Len(items) < MAX_ITEMS_PER_REQUEST
    \/ ~IsSome(as_i64(items[Len(items)].time))

\* a turn of the loop that got a page: it returns exactly at a last page, and
\* then all the records of the pages received
PageTurn ==
    /\ fetched' = None => ~LastPage(page') /\ pc' = "fetching"
    /\ (fetched' # None /\ fetched'.v.tag = "Ok") =>
           /\ LastPage(page')
           /\ fetched'.v.v = all_items \o page'
           /\ pc' = "fetched"

(* C13: fetch_paginated terminates: over a finite upstream that honors the page
   contract every fetch returns, after at most one request per full page the
   upstream holds plus one; each request after the first carries a startTime
   strictly greater than the previous one's; the loop stops at the first page
   that is empty, shorter than the page size or whose last record has no
   integer time; a failed request ends the fetch with its error, which carries
   none of the records gathered so far. *)
C13_FetchTerminates ==
    /\ <>(pc = "fetched")
    /\ [](RequestsAdvance)
    /\ [](Len(requests) <= Len(upstream) \div MAX_ITEMS_PER_REQUEST + 1)
    /\ [](pc = "fetched" <=> fetched # None)
    /\ []((fetched # None /\ fetched.v.tag = "Err") =>
              \E e \in FetchErrors : fetched.v = [tag |-> "Err", e |-> e])
    /\ [][PageTurn]_vars

----------------------------------------------------------------------------
\* the sum of the pnl of all the daily entries
DailyTotal == DecSum([i \in DOMAIN daily.v |-> daily.v[i].pnl])

(* C14: the two aggregators agree: for a timeline of build_timeline and any
   unrealized_pnl, the sum of the pnl of calculate_daily's entries, which is
   the last cumulative_pnl, equals calculate_summary's realized_pnl +
   funding_pnl - trading_fees, which is net_pnl - unrealized_pnl; for an empty
   timeline the daily series is empty and both are zero. *)
C14_AggregatorsAgree ==
    (pc = "built" /\ IsSome(summary) /\ IsSome(daily)) =>
        LET sm == summary.v
            d == daily.v
            flows == DecSub(DecAdd(sm.realized_pnl, sm.funding_pnl), sm.trading_fees)
        IN  /\ DecEq(DailyTotal, flows)
            /\ DecEq(DailyTotal, DecSub(sm.net_pnl, sm.unrealized_pnl))
            /\ d # <<>> => DecEq(d[Len(d)].cumulative_pnl, DailyTotal)
            /\ TimelineEvents = <<>> =>
                   /\ d = <<>>
                   /\ DecEq(flows, DecZero)
                   /\ DecEq(DailyTotal, DecZero)

\* a closing fill with a fee and a funding payment on two days, a non-zero
\* unrealized_pnl, and a total that is not zero
C14_Witness ==
    /\ pc = "built"
    /\ IsSome(summary)
    /\ IsSome(daily)
    /\ Len(daily.v) = 2
    /\ \E e \in Range(FillEvents) : IsSome(e.realized_pnl) /\ ~DecEq(e.fee, DecZero)
    /\ FundingEvents # <<>>
    /\ ~DecEq(unrealized, DecZero)
    /\ ~DecEq(DailyTotal, DecZero)

====
